---------------------------- MODULE Spec2Model ----------------------------
(***************************************************************************)
(* llll: running MicroPython programs on a LEGO hub through the external   *)
(* uploader (runner.py), the run logs and their latest.log alias           *)
(* (runner.py, logs.py) and hub discovery (discover.py).                   *)
(***************************************************************************)
EXTENDS Integers, Sequences, FiniteSets, TLC

(***************************************************************************)
(* Bounds of the model.                                                    *)
(***************************************************************************)
\* calls of run_program / run_discovery issued in one behaviour
MaxCalls == 2
\* the UTC clock, in whole seconds, runs from 0 to MaxClock
MaxClock == 1
\* calls of run_discovery issued in one behaviour
MaxDiscoveries == 1
\* lines of an output text handed to the decoder on its own
MaxLines == 3
\* decoder calls made one after the other
MaxDecodes == 3

(***************************************************************************)
(* discover.py: the discovery protocol codec.                              *)
(*                                                                         *)
(* A text is a sequence of lines (str.splitlines) and a line a sequence of *)
(* tokens.  A token is the marker text, a JSON document, or other text.    *)
(***************************************************************************)
Marker == "LLLL_DETECT:"

None == [t |-> "None"]
PyInt(n) == [t |-> "int", v |-> n]

DEVICE_MAP ==
     (1  :> <<"Powered Up Medium Motor", "DCMotor", "pybricks.pupdevices">>)
  @@ (2  :> <<"Powered Up Train Motor", "DCMotor", "pybricks.pupdevices">>)
  @@ (8  :> <<"Powered Up Light", "Light", "pybricks.pupdevices">>)
  @@ (34 :> <<"WeDo 2.0 Tilt Sensor", "TiltSensor", "pybricks.pupdevices">>)
  @@ (35 :> <<"WeDo 2.0 Motion Sensor", "InfraredSensor", "pybricks.pupdevices">>)
  @@ (37 :> <<"BOOST Color Distance Sensor", "ColorDistanceSensor", "pybricks.pupdevices">>)
  @@ (38 :> <<"BOOST Interactive Motor", "Motor", "pybricks.pupdevices">>)
  @@ (46 :> <<"Technic Large Motor", "Motor", "pybricks.pupdevices">>)
  @@ (47 :> <<"Technic XL Motor", "Motor", "pybricks.pupdevices">>)
  @@ (48 :> <<"SPIKE Medium Angular Motor", "Motor", "pybricks.pupdevices">>)
  @@ (49 :> <<"SPIKE Large Angular Motor", "Motor", "pybricks.pupdevices">>)
  @@ (61 :> <<"Color Sensor", "ColorSensor", "pybricks.pupdevices">>)
  @@ (62 :> <<"Ultrasonic Sensor", "UltrasonicSensor", "pybricks.pupdevices">>)
  @@ (63 :> <<"Force Sensor", "ForceSensor", "pybricks.pupdevices">>)
  @@ (64 :> <<"3x3 Color Light Matrix", "ColorLightMatrix", "pybricks.pupdevices">>)
  @@ (65 :> <<"Technic Small Angular Motor", "Motor", "pybricks.pupdevices">>)
  @@ (75 :> <<"Technic Medium Angular Motor", "Motor", "pybricks.pupdevices">>)
  @@ (76 :> <<"Technic Large Angular Motor", "Motor", "pybricks.pupdevices">>)

\* The JSON documents the probe program can print (DISCOVERY_PROGRAM, its two
\* print statements), an error object that also has ports, and one JSON document
\* that is no object.
HubPayload ==
  [hub_type |-> "TechnicHub", hub_name |-> "Hub1", battery_voltage |-> 8100,
   pybricks_version |-> "3.6.1",
   ports |-> << [port |-> "A", device_id |-> PyInt(46)],
                [port |-> "B", device_id |-> None],
                [port |-> "C", device_id |-> PyInt(9999)],
                [port |-> "D", device_id |-> None, error |-> "EIO"] >>]

ErrorPayload == [error |-> "Could not detect hub type"]

\* A JSON object with the key error next to a port list.
ErrorPortsPayload ==
  [error |-> "EIO", ports |-> << [port |-> "A", device_id |-> PyInt(46)] >>]

\* json.loads on a payload (the tokens after the marker): a single JSON document
\* decodes to its value, anything else (nothing, text that is no JSON, text
\* after the document) raises json.JSONDecodeError.
json_loads(payload) ==
  IF Len(payload) # 1 THEN [raise |-> "JSONDecodeError"]
  ELSE CASE payload[1] = "{hub}"   -> [t |-> "dict", v |-> HubPayload]
         [] payload[1] = "{error}" -> [t |-> "dict", v |-> ErrorPayload]
         [] payload[1] = "{error,ports}" -> [t |-> "dict", v |-> ErrorPortsPayload]
         [] payload[1] = "{}"      -> [t |-> "dict", v |-> [hub_type |-> "Unknown"]]
         [] payload[1] = "5"       -> [t |-> "int", v |-> 5]
         [] OTHER                  -> [raise |-> "JSONDecodeError"]

\* line.startswith("LLLL_DETECT:")
startswith(line) == Len(line) > 0 /\ line[1] = Marker

\* The loop body without the class and module labels.
EnrichPortNameOnly(port_info) ==
  LET dev_id == IF "device_id" \in DOMAIN port_info THEN port_info.device_id ELSE None IN
  IF dev_id # None /\ dev_id.v \in DOMAIN DEVICE_MAP
  THEN port_info @@ [device_name |-> DEVICE_MAP[dev_id.v][1]]
  ELSE IF dev_id # None
  THEN port_info @@ [device_name |-> "Unknown (ID " \o ToString(dev_id.v) \o ")"]
  ELSE port_info

\* The body of the loop over data.get("ports", []) for one port entry.
EnrichPort(port_info) ==
  LET dev_id == IF "device_id" \in DOMAIN port_info THEN port_info.device_id ELSE None IN
  IF dev_id # None /\ dev_id.v \in DOMAIN DEVICE_MAP
  THEN port_info @@ [device_name     |-> DEVICE_MAP[dev_id.v][1],
                     pybricks_class  |-> DEVICE_MAP[dev_id.v][2],
                     pybricks_module |-> DEVICE_MAP[dev_id.v][3]]
  ELSE IF dev_id # None
  THEN port_info @@ [device_name |-> "Unknown (ID " \o ToString(dev_id.v) \o ")"]
  ELSE port_info

\* The decoder without the test for the key error (lines 122-123).
DecodeDataNoErrorTest(data) ==
  IF "raise" \in DOMAIN data THEN [kind |-> "raise", exc |-> data.raise]
  ELSE IF data.t # "dict" THEN [kind |-> "raise", exc |-> "TypeError"]
  ELSE IF "ports" \notin DOMAIN data.v THEN [kind |-> "return", value |-> data.v]
  ELSE [kind |-> "return",
        value |-> [data.v EXCEPT !.ports =
                     [k \in DOMAIN data.v.ports |-> EnrichPort(data.v.ports[k])]]]

\* What the code does with the decoded value of the first marker line.
DecodeData(data) ==
  IF "raise" \in DOMAIN data THEN [kind |-> "raise", exc |-> data.raise]
  ELSE IF data.t # "dict" THEN [kind |-> "raise", exc |-> "TypeError"]
  ELSE IF "error" \in DOMAIN data.v THEN [kind |-> "return", value |-> data.v]
  ELSE IF "ports" \notin DOMAIN data.v THEN [kind |-> "return", value |-> data.v]
  ELSE [kind |-> "return",
        value |-> [data.v EXCEPT !.ports =
                     [k \in DOMAIN data.v.ports |-> EnrichPort(data.v.ports[k])]]]

\* A decoder that lets the last marker line decide.
RECURSIVE parse_discovery_output_last(_)
parse_discovery_output_last(output) ==
  IF output = << >> THEN [kind |-> "none"]
  ELSE IF startswith(output[Len(output)])
       THEN DecodeData(json_loads(Tail(output[Len(output)])))
       ELSE parse_discovery_output_last(SubSeq(output, 1, Len(output) - 1))

\* parse_discovery_output: the first line that starts with the marker decides;
\* with no such line the result is Python's None.
RECURSIVE parse_discovery_output(_)
parse_discovery_output(output) ==
  IF output = << >> THEN [kind |-> "none"]
  ELSE IF startswith(Head(output)) THEN DecodeData(json_loads(Tail(Head(output))))
  ELSE parse_discovery_output(Tail(output))

\* The lines the decoder is tried on.
Lines ==
  { << >>,
    <<"noise">>,
    <<Marker>>,
    <<Marker, "{hub}">>,
    <<Marker, "{error}">>,
    <<Marker, "{error,ports}">>,
    <<Marker, "{}">>,
    <<Marker, "5">>,
    <<Marker, "{hub">>,
    <<Marker, "{hub}", "noise">>,
    <<"noise", Marker, "{hub}">> }

RECURSIVE Texts(_)
Texts(n) ==
  IF n = 0 THEN { << >> }
  ELSE LET shorter == Texts(n - 1) IN
       shorter \cup { Append(t, l) : t \in shorter, l \in Lines }


(***************************************************************************)
(* The project directory, the event loop and the calls in flight.          *)
(***************************************************************************)
VARIABLES
  clock,         \* the last reading of datetime.now(timezone.utc), in whole seconds
  projectFiles,  \* the program files that exist under project_dir
  logsDir,       \* whether project_dir/logs exists
  files,         \* logs/: dated log file name -> its content
  latest,        \* logs/latest.log: << >> when absent, <<name>> a symlink to name
  aliasEver,     \* history: logs/latest.log has existed
  running,       \* the task the event loop is executing (0: none)
  pc,            \* where each task's coroutine stands
  call,          \* each task's call: its kind, file_path and serial number
  proc,          \* each task's child process
  local,         \* run_program's locals: log_file, output, exit_code, timed_out
  hist,          \* history of each task's call: created, its open(log_file, "w")
                 \* made a new file; overlapped, another call was in flight when
                 \* it began
  result,        \* what run_program returned
  dres,          \* what run_discovery returned
  exc,           \* the exception a call ended with ("" for none)
  ncalls,        \* calls issued so far
  rpc,           \* the reader process inside read_log
  robs,          \* what the reader's last read_log returned
  decIn,         \* the text handed to the decoder
  decOut,        \* what the decoder made of it
  decLog,        \* the decoder's calls so far, each with its text and its result
  fwCur,         \* firmware.py: the current_version / version_str argument
  fwLat,         \* firmware.py: the latest argument, the fetched release's version
  fwOut,         \* firmware.py: the call made and what it returned
  cfg,           \* llll.toml: whether it exists and its lines
  detected,      \* history: the last detect_hub call's outcome, what
                 \* run_discovery gave it and llll.toml as it was before
  listing        \* what the last call of list_logs returned

vars == << clock, projectFiles, logsDir, files, latest, aliasEver, running, pc,
           call, proc, local, hist, result, dres, exc, ncalls, rpc, robs,
           decIn, decOut, decLog, fwCur, fwLat, fwOut, cfg, detected, listing >>

fsVars   == << projectFiles, logsDir, files, latest, aliasEver >>
readVars == << rpc, robs >>
decVars  == << decIn, decOut >>
libVars  == << decLog, fwCur, fwLat, fwOut, cfg, detected, listing >>
cfgVars  == << cfg, detected >>

Tasks == {1, 2}

ProbeFile == "_llll_discover.py"
\* file_path arguments of run_program: two programs of the project and one
\* that is not there
UserFiles == {"main.py", "drive.py"}
MissingFile == "missing.py"

\* Path.stem
stem(file) ==
  CASE file = "main.py"    -> "main"
    [] file = "drive.py"   -> "drive"
    [] file = "missing.py" -> "missing"
    [] file = ProbeFile    -> "_llll_discover"

\* Exit statuses of a child that ends on its own: 0, a failure, and -1, which
\* asyncio reports for a child ended by signal 1.
ExitCodes == {0, 1, -1}
\* returncode of a child ended by proc.kill()
SIGKILLED == -9

\* What a user program prints, and what the probe program's run prints.
UserOutputs  == { << <<"noise">> >> }
ProbeOutputs == { << <<"noise">> >>,
                  << <<"noise">>, <<Marker, "{hub}">> >>,
                  << <<Marker, "{error}">> >>,
                  << <<Marker, "{hub">> >> }
OutputsOf(file) == IF file = ProbeFile THEN ProbeOutputs ELSE UserOutputs

NoCall   == [kind |-> "none"]
NoProc   == [state |-> "none"]
NoLocal  == [log_file |-> << >>]
NoResult == [none |-> TRUE]
NoHist   == [created |-> FALSE, overlapped |-> FALSE]

TypeOK ==
  /\ clock \in 0..MaxClock
  /\ projectFiles \subseteq UserFiles \cup {ProbeFile}
  /\ logsDir \in BOOLEAN
  /\ \A n \in DOMAIN files : files[n].st \in {"empty", "partial", "complete"}
  /\ latest = << >> \/ Len(latest) = 1
  /\ running \in Tasks \cup {0}
  /\ ncalls \in 0..MaxCalls \cup 0..MaxDiscoveries

InitSystem ==
  /\ clock = 0
  /\ projectFiles = UserFiles
  /\ logsDir = FALSE
  /\ files = << >>
  /\ latest = << >>
  /\ aliasEver = FALSE
  /\ running = 0
  /\ pc = [i \in Tasks |-> "idle"]
  /\ call = [i \in Tasks |-> NoCall]
  /\ proc = [i \in Tasks |-> NoProc]
  /\ local = [i \in Tasks |-> NoLocal]
  /\ hist = [i \in Tasks |-> NoHist]
  /\ result = [i \in Tasks |-> NoResult]
  /\ dres = [i \in Tasks |-> NoResult]
  /\ exc = [i \in Tasks |-> ""]
  /\ ncalls = 0
  /\ rpc = "idle"
  /\ robs = [text |-> "none", hadAlias |-> FALSE]

\* No call of the decoder, of firmware.py, of detect_hub or of list_logs made.
InitLibrary ==
  /\ decLog = << >>
  /\ fwCur = << >>
  /\ fwLat = << >>
  /\ fwOut = [op |-> "idle"]
  /\ cfg = [exists |-> FALSE]
  /\ detected = [outcome |-> "none"]
  /\ listing = [made |-> FALSE]

Init ==
  /\ InitSystem
  /\ decIn = << >>
  /\ decOut = [kind |-> "idle"]
  /\ InitLibrary

(***************************************************************************)
(* runner.py: run_program.  A coroutine runs without interruption from one *)
(* await to the next; `running` is the task the loop is executing.         *)
(***************************************************************************)
FileNotFoundResult(file_path) ==
  [success |-> FALSE, error |-> "File not found: " \o file_path,
   output |-> << >>, log_file |-> None]

\* The absent uploader reported as a run that failed.
ToolNotFoundAsFailedRun ==
  [success |-> FALSE, exit_code |-> 127, timed_out |-> FALSE,
   output |-> << >>, log_file |-> None]

ToolNotFoundResult ==
  [success |-> FALSE,
   error |-> "pybricksdev not found. Install it with: pip install pybricksdev",
   output |-> << >>, log_file |-> None]

\* success taken from timed_out alone.
RunResultSuccessUnlessTimedOut(l) ==
  [success |-> ~l.timed_out, exit_code |-> l.exit_code,
   timed_out |-> l.timed_out, output |-> l.output, log_file |-> l.log_file]

\* Lines 96-103: the result of a run whose child was launched.
RunResult(l) ==
  [success |-> l.exit_code = 0, exit_code |-> l.exit_code,
   timed_out |-> l.timed_out, output |-> l.output, log_file |-> l.log_file]

\* run_program hands res back (or raises e): a direct call is over, a call made
\* by run_discovery goes on in run_discovery without an await in between.
AfterRun(i, c, res, e) ==
  /\ result' = [result EXCEPT ![i] = res]
  /\ exc' = [exc EXCEPT ![i] = e]
  /\ pc' = [pc EXCEPT ![i] = IF c.kind = "run" THEN "done" ELSE "d_ret"]
  /\ running' = IF c.kind = "run" THEN 0 ELSE i

\* Lines 27-45 without the existence check of lines 18-25.
RunEnterUnchecked(i, c, pf, now) ==
  /\ clock' = now
  /\ logsDir' = TRUE
  /\ local' = [local EXCEPT ![i] = [log_file |-> << stem(c.file), now >>]]
  /\ pc' = [pc EXCEPT ![i] = "spawn"]
  /\ running' = 0
  /\ UNCHANGED << result, exc >>

\* Lines 18-45, to the first await: the existence check, logs/, the log file's
\* name from the program's stem and the clock's reading now (line 33; time does
\* not run backwards), and the launch request.
RunEnter(i, c, pf, now) ==
  IF c.file \notin pf
  THEN /\ AfterRun(i, c, FileNotFoundResult(c.file), "")
       /\ UNCHANGED << clock, logsDir, local >>
  ELSE /\ clock' = now
       /\ logsDir' = TRUE
       /\ local' = [local EXCEPT ![i] = [log_file |-> << stem(c.file), now >>]]
       /\ pc' = [pc EXCEPT ![i] = "spawn"]
       /\ running' = 0
       /\ UNCHANGED << result, exc >>

\* Whether a call is in flight on a task other than i.
OtherInFlight(i) == \E j \in Tasks \ {i} : pc[j] \notin {"idle", "done"}

\* A new call, while fewer than max were made, takes the lowest free task.
CanCall(i, max) ==
  /\ pc[i] = "idle"
  /\ running = 0
  /\ ncalls < max
  /\ \A j \in Tasks : j < i => pc[j] # "idle"

run_program(i, file_path) ==
  /\ CanCall(i, MaxCalls)
  /\ ncalls' = ncalls + 1
  /\ call' = [call EXCEPT ![i] = [kind |-> "run", file |-> file_path, id |-> ncalls + 1]]
  /\ hist' = [hist EXCEPT ![i].overlapped = OtherInFlight(i)]
  /\ \E now \in clock..MaxClock : RunEnter(i, call'[i], projectFiles, now)
  /\ UNCHANGED << projectFiles, files, latest, aliasEver, proc, dres >>
  /\ UNCHANGED << readVars, decVars, libVars >>

\* Lines 44-56: create_subprocess_exec either raises FileNotFoundError (no
\* uploader on the PATH) or starts the child.
RunSpawn(i) ==
  /\ pc[i] = "spawn"
  /\ running = 0
  /\ \/ /\ AfterRun(i, call[i], ToolNotFoundResult, "")
        /\ UNCHANGED proc
     \/ /\ proc' = [proc EXCEPT ![i] = [state |-> "running"]]
        /\ pc' = [pc EXCEPT ![i] = "wait"]
        /\ UNCHANGED << result, exc, running >>
  /\ UNCHANGED << clock, call, local, hist, dres, ncalls >>
  /\ UNCHANGED fsVars
  /\ UNCHANGED << readVars, decVars, libVars >>

\* The child ends on its own, having printed out.
ChildExit(i) ==
  /\ proc[i].state = "running"
  /\ \E code \in ExitCodes, out \in OutputsOf(call[i].file) :
       proc' = [proc EXCEPT ![i] = [state |-> "exited", returncode |-> code, out |-> out]]
  /\ UNCHANGED << clock, running, pc, call, local, hist, result, dres, exc, ncalls >>
  /\ UNCHANGED fsVars
  /\ UNCHANGED << readVars, decVars, libVars >>

\* Line 60: the loop runs the timer of wait_for before it has resumed the task
\* with the result of communicate().
TimerFires(i) ==
  /\ pc[i] = "wait"
  /\ running = 0
  /\ pc' = [pc EXCEPT ![i] = "expired"]
  /\ UNCHANGED << clock, running, call, proc, local, hist, result, dres, exc, ncalls >>
  /\ UNCHANGED fsVars
  /\ UNCHANGED << readVars, decVars, libVars >>

\* The task giving the loop to the others on its way to the log.
RunWaitDoneYielding(i) ==
  /\ pc[i] = "wait"
  /\ running = 0
  /\ proc[i].state = "exited"
  /\ local' = [local EXCEPT ![i] =
                 [log_file |-> local[i].log_file, output |-> proc[i].out,
                  exit_code |-> proc[i].returncode, timed_out |-> FALSE]]
  /\ pc' = [pc EXCEPT ![i] = "open"]
  /\ UNCHANGED << clock, running, call, proc, hist, result, dres, exc, ncalls >>
  /\ UNCHANGED fsVars
  /\ UNCHANGED << readVars, decVars, libVars >>

\* Lines 60-62: communicate() is done within the timeout.
RunWaitDone(i) ==
  /\ pc[i] = "wait"
  /\ running = 0
  /\ proc[i].state = "exited"
  /\ local' = [local EXCEPT ![i] =
                 [log_file |-> local[i].log_file, output |-> proc[i].out,
                  exit_code |-> proc[i].returncode, timed_out |-> FALSE]]
  /\ pc' = [pc EXCEPT ![i] = "open"]
  /\ running' = i
  /\ UNCHANGED << clock, call, proc, hist, result, dres, exc, ncalls >>
  /\ UNCHANGED fsVars
  /\ UNCHANGED << readVars, decVars, libVars >>

\* Lines 63-65: TimeoutError; proc.kill(), then the second communicate() is
\* awaited.  kill() signals a child that still runs.  On a child that has ended
\* meanwhile it does nothing while the transport is open, and raises
\* ProcessLookupError once the transport is closed; nothing catches that.
RunKill(i) ==
  /\ pc[i] = "expired"
  /\ running = 0
  /\ \/ /\ proc[i].state = "running"
        /\ proc' = [proc EXCEPT ![i] = [state |-> "killing"]]
        /\ pc' = [pc EXCEPT ![i] = "drain"]
        /\ UNCHANGED << result, exc, running >>
     \/ /\ proc[i].state = "exited"
        /\ pc' = [pc EXCEPT ![i] = "drain"]
        /\ UNCHANGED << proc, result, exc, running >>
     \/ /\ proc[i].state = "exited"
        /\ AfterRun(i, call[i], NoResult, "ProcessLookupError")
        /\ UNCHANGED proc
  /\ UNCHANGED << clock, call, local, hist, dres, ncalls >>
  /\ UNCHANGED fsVars
  /\ UNCHANGED << readVars, decVars, libVars >>

\* The operating system ends the signalled child.
ChildDies(i) ==
  /\ proc[i].state = "killing"
  /\ \E out \in OutputsOf(call[i].file) :
       proc' = [proc EXCEPT ![i] = [state |-> "dead", returncode |-> SIGKILLED, out |-> out]]
  /\ UNCHANGED << clock, running, pc, call, local, hist, result, dres, exc, ncalls >>
  /\ UNCHANGED fsVars
  /\ UNCHANGED << readVars, decVars, libVars >>

\* Whether the second communicate() (line 65) may come back.
Drained(p) == p.state \in {"exited", "dead"}

\* The timeout branch going on without awaiting the signalled child's end.
RunDrainNotAwaited(i) ==
  /\ pc[i] = "drain"
  /\ running = 0
  /\ local' = [local EXCEPT ![i] =
                 [log_file |-> local[i].log_file,
                  output |-> IF Drained(proc[i]) THEN proc[i].out ELSE << >>,
                  exit_code |-> -1, timed_out |-> TRUE]]
  /\ pc' = [pc EXCEPT ![i] = "open"]
  /\ running' = i
  /\ UNCHANGED << clock, call, proc, hist, result, dres, exc, ncalls >>
  /\ UNCHANGED fsVars
  /\ UNCHANGED << readVars, decVars, libVars >>

\* The timeout branch not setting timed_out.
RunDrainNotTimedOut(i) ==
  /\ pc[i] = "drain"
  /\ running = 0
  /\ Drained(proc[i])
  /\ local' = [local EXCEPT ![i] =
                 [log_file |-> local[i].log_file, output |-> proc[i].out,
                  exit_code |-> -1, timed_out |-> FALSE]]
  /\ pc' = [pc EXCEPT ![i] = "open"]
  /\ running' = i
  /\ UNCHANGED << clock, call, proc, hist, result, dres, exc, ncalls >>
  /\ UNCHANGED fsVars
  /\ UNCHANGED << readVars, decVars, libVars >>

\* Lines 65-68: the second communicate() is done: the sentinel exit code.
RunDrainDone(i) ==
  /\ pc[i] = "drain"
  /\ running = 0
  /\ Drained(proc[i])
  /\ local' = [local EXCEPT ![i] =
                 [log_file |-> local[i].log_file, output |-> proc[i].out,
                  exit_code |-> -1, timed_out |-> TRUE]]
  /\ pc' = [pc EXCEPT ![i] = "open"]
  /\ running' = i
  /\ UNCHANGED << clock, call, proc, hist, result, dres, exc, ncalls >>
  /\ UNCHANGED fsVars
  /\ UNCHANGED << readVars, decVars, libVars >>

(***************************************************************************)
(* runner.py lines 73-103: the log file and the latest.log alias.  No await *)
(* from here to the return: the task keeps the loop; each file system call *)
(* is a step another process can see.                                      *)
(***************************************************************************)
\* Line 74: open(log_file, "w") creates the file or truncates the one there.
LogOpen(i) ==
  /\ pc[i] = "open"
  /\ files' = (local[i].log_file :> [call |-> call[i].id, st |-> "empty"]) @@ files
  /\ hist' = [hist EXCEPT ![i].created = local[i].log_file \notin DOMAIN files]
  /\ pc' = [pc EXCEPT ![i] = "write"]
  /\ UNCHANGED << clock, projectFiles, logsDir, latest, aliasEver, running, call,
                  proc, local, result, dres, exc, ncalls >>
  /\ UNCHANGED << readVars, decVars, libVars >>

\* Lines 75-88: the writes go to the file object's buffer; a long output
\* fills it and part of the record reaches the file before the close.
LogFlush(i) ==
  /\ pc[i] = "write"
  /\ files' = [files EXCEPT ![local[i].log_file].st = "partial"]
  /\ pc' = [pc EXCEPT ![i] = "close"]
  /\ UNCHANGED << clock, projectFiles, logsDir, latest, aliasEver, running, call,
                  proc, local, hist, result, dres, exc, ncalls >>
  /\ UNCHANGED << readVars, decVars, libVars >>

\* The end of the with block: the whole record is in the file.
LogClose(i) ==
  /\ pc[i] \in {"write", "close"}
  /\ files' = [files EXCEPT ![local[i].log_file].st = "complete"]
  /\ pc' = [pc EXCEPT ![i] = "unlink"]
  /\ UNCHANGED << clock, projectFiles, logsDir, latest, aliasEver, running, call,
                  proc, local, hist, result, dres, exc, ncalls >>
  /\ UNCHANGED << readVars, decVars, libVars >>

\* Lines 91-93: if latest.is_symlink() or latest.exists(): latest.unlink()
AliasUnlink(i) ==
  /\ pc[i] = "unlink"
  /\ latest' = << >>
  /\ pc' = [pc EXCEPT ![i] = "symlink"]
  /\ UNCHANGED << clock, projectFiles, logsDir, files, aliasEver, running, call,
                  proc, local, hist, result, dres, exc, ncalls >>
  /\ UNCHANGED << readVars, decVars, libVars >>

\* The alias made with the path from the project root as its target, which
\* read from inside logs/ names no file.
AliasSymlinkToPath(i) ==
  /\ pc[i] = "symlink"
  /\ latest' = << << "logs/" \o local[i].log_file[1], local[i].log_file[2] >> >>
  /\ aliasEver' = TRUE
  /\ AfterRun(i, call[i], RunResult(local[i]), "")
  /\ UNCHANGED << clock, projectFiles, logsDir, files, call, proc, local, hist,
                  dres, ncalls >>
  /\ UNCHANGED << readVars, decVars, libVars >>

\* Lines 94-103: latest.symlink_to(log_file.name) and the return.  symlink_to
\* raises FileExistsError when there is a logs/latest.log.
AliasSymlink(i) ==
  /\ pc[i] = "symlink"
  /\ IF latest # << >>
     THEN /\ AfterRun(i, call[i], NoResult, "FileExistsError")
          /\ UNCHANGED << latest, aliasEver >>
     ELSE /\ latest' = << local[i].log_file >>
          /\ aliasEver' = TRUE
          /\ AfterRun(i, call[i], RunResult(local[i]), "")
  /\ UNCHANGED << clock, projectFiles, logsDir, files, call, proc, local, hist,
                  dres, ncalls >>
  /\ UNCHANGED << readVars, decVars, libVars >>

(***************************************************************************)
(* discover.py: run_discovery.                                             *)
(***************************************************************************)
\* No clean-up.
CleanupSkipped(pf) == pf

\* Lines 177-179: the finally clause.
Cleanup(pf) == pf \ {ProbeFile}

\* Lines 148-157: the probe program is staged and run_program entered; or
\* write_text raises OSError and the finally clause runs at once.
StageAndRun(i) ==
  /\ ncalls' = ncalls + 1
  /\ call' = [call EXCEPT ![i] = [kind |-> "discover", file |-> ProbeFile, id |-> ncalls + 1]]
  /\ \/ /\ projectFiles' = projectFiles \cup {ProbeFile}
        /\ \E now \in clock..MaxClock : RunEnter(i, call'[i], projectFiles', now)
     \/ /\ projectFiles' = Cleanup(projectFiles)
        /\ pc' = [pc EXCEPT ![i] = "done"]
        /\ exc' = [exc EXCEPT ![i] = "OSError"]
        /\ UNCHANGED << clock, logsDir, local, result, running >>
  /\ hist' = [hist EXCEPT ![i].overlapped = OtherInFlight(i)]
  /\ UNCHANGED << files, latest, aliasEver, proc, dres >>
  /\ UNCHANGED << readVars, decVars, libVars >>

\* A call of run_discovery, while fewer than MaxDiscoveries were made.
run_discovery(i) ==
  /\ CanCall(i, MaxDiscoveries)
  /\ StageAndRun(i)

\* A call of run_discovery, each task making one.
run_discovery_each(i) ==
  /\ CanCall(i, Cardinality(Tasks))
  /\ StageAndRun(i)

\* Lines 159-175: what run_discovery makes of run_program's result.
DiscoveryOutcome(r) ==
  IF "error" \in DOMAIN r THEN [return |-> [error |-> r.error]]
  ELSE IF ~r.success
  THEN [return |-> [error |-> "Discovery program failed (exit code " \o
                              ToString(r.exit_code) \o ")",
                    output |-> r.output]]
  ELSE LET parsed == parse_discovery_output(r.output) IN
       IF parsed.kind = "raise" THEN [raise |-> parsed.exc]
       ELSE IF parsed.kind = "none"
       THEN [return |-> [error |-> "Could not parse discovery output",
                         output |-> r.output]]
       ELSE [return |-> parsed.value]

\* Lines 159-179: run_program has returned or raised; the outcome, the finally
\* clause, and the return or the exception.
DiscoveryFinish(i) ==
  /\ pc[i] = "d_ret"
  /\ LET o == IF exc[i] # "" THEN [raise |-> exc[i]] ELSE DiscoveryOutcome(result[i]) IN
       /\ dres' = [dres EXCEPT ![i] = IF "return" \in DOMAIN o THEN o.return ELSE NoResult]
       /\ exc' = [exc EXCEPT ![i] = IF "raise" \in DOMAIN o THEN o.raise ELSE ""]
  /\ projectFiles' = Cleanup(projectFiles)
  /\ pc' = [pc EXCEPT ![i] = "done"]
  /\ running' = 0
  /\ UNCHANGED << clock, logsDir, files, latest, aliasEver, call, proc, local,
                  hist, result, ncalls >>
  /\ UNCHANGED << readVars, decVars, libVars >>

\* The caller has the result (or the exception); the task is free again.
Finish(i) ==
  /\ pc[i] = "done"
  /\ pc' = [pc EXCEPT ![i] = "idle"]
  /\ call' = [call EXCEPT ![i] = NoCall]
  /\ proc' = [proc EXCEPT ![i] = NoProc]
  /\ local' = [local EXCEPT ![i] = NoLocal]
  /\ hist' = [hist EXCEPT ![i] = NoHist]
  /\ result' = [result EXCEPT ![i] = NoResult]
  /\ dres' = [dres EXCEPT ![i] = NoResult]
  /\ exc' = [exc EXCEPT ![i] = ""]
  /\ UNCHANGED << clock, running, ncalls >>
  /\ UNCHANGED fsVars
  /\ UNCHANGED << readVars, decVars, libVars >>

(***************************************************************************)
(* logs.py: read_log(project_dir) with no name, in another process.        *)
(***************************************************************************)
\* Path.exists() on logs/latest.log follows the link.
LatestExists == latest # << >> /\ latest[1] \in DOMAIN files

\* Lines 33-36: the existence check and the "No logs yet" answer.
ReadLogCheck ==
  /\ rpc = "idle"
  /\ IF LatestExists
     THEN /\ rpc' = "read"
          /\ UNCHANGED robs
     ELSE /\ robs' = [text |-> "No logs yet. Run a program first.", hadAlias |-> aliasEver]
          /\ UNCHANGED rpc
  /\ UNCHANGED << clock, running, pc, call, proc, local, hist, result, dres, exc, ncalls >>
  /\ UNCHANGED << fsVars, decVars, libVars >>

\* Line 37: log_file.read_text()
ReadLogRead ==
  /\ rpc = "read"
  /\ rpc' = "idle"
  /\ robs' = [text |-> IF LatestExists THEN files[latest[1]].st ELSE "FileNotFoundError",
              hadAlias |-> aliasEver]
  /\ UNCHANGED << clock, running, pc, call, proc, local, hist, result, dres, exc, ncalls >>
  /\ UNCHANGED << fsVars, decVars, libVars >>

\* The steps of a call of run_program, whoever made it, and of its child.
RunStep(i) ==
  \/ RunSpawn(i)
  \/ ChildExit(i)
  \/ TimerFires(i)
  \/ RunWaitDone(i)
  \/ RunKill(i)
  \/ ChildDies(i)
  \/ RunDrainDone(i)
  \/ LogOpen(i)
  \/ LogFlush(i)
  \/ LogClose(i)
  \/ AliasUnlink(i)
  \/ AliasSymlink(i)
  \/ Finish(i)

\* Calls of run_program, up to two of them in flight in one event loop.
Next ==
  \/ \E i \in Tasks : \E f \in UserFiles \cup {MissingFile} : run_program(i, f)
  \/ \E i \in Tasks : RunStep(i)

Spec == Init /\ [][Next]_vars

\* Calls of run_program one after the other, and a reader in another process.
NextRead ==
  \/ \E f \in UserFiles : run_program(1, f)
  \/ RunStep(1)
  \/ ReadLogCheck
  \/ ReadLogRead

SpecRead == Init /\ [][NextRead]_vars

\* Calls of run_discovery, up to two of them in flight in one event loop.
NextDiscover ==
  \/ \E i \in Tasks : run_discovery(i)
  \/ \E i \in Tasks : DiscoveryFinish(i)
  \/ \E i \in Tasks : RunStep(i)

SpecDiscover == Init /\ [][NextDiscover]_vars

\* Two calls of run_discovery on one project root in one event loop, the
\* second made while the first is in flight or after it.
NextDiscoverPair ==
  \/ \E i \in Tasks : run_discovery_each(i)
  \/ \E i \in Tasks : DiscoveryFinish(i)
  \/ \E i \in Tasks : RunStep(i)

SpecDiscoverPair == Init /\ [][NextDiscoverPair]_vars

(***************************************************************************)
(* The decoder on its own, on every text of up to MaxLines lines.          *)
(***************************************************************************)
InitDecode ==
  /\ InitSystem
  /\ decIn \in Texts(MaxLines)
  /\ decOut = [kind |-> "idle"]
  /\ InitLibrary

Decode ==
  /\ decOut.kind = "idle"
  /\ decOut' = parse_discovery_output(decIn)
  /\ UNCHANGED << decIn, clock, running, pc, call, proc, local, hist, result,
                  dres, exc, ncalls >>
  /\ UNCHANGED << fsVars, readVars, libVars >>

NextDecode == Decode

SpecDecode == InitDecode /\ [][NextDecode]_vars

(***************************************************************************)
(* The decoder called several times in one process.  parse_discovery_output *)
(* reads its argument and the module constant DEVICE_MAP and writes nothing *)
(* that outlives the call: json.loads builds a new object on every call.   *)
(***************************************************************************)
\* A decoder that answers with the previous call's snapshot when there is one.
DecodeCallRemembering(text) ==
  /\ Len(decLog) < MaxDecodes
  /\ decLog' = Append(decLog,
                 [text |-> text,
                  out |-> IF decLog # << >> /\ decLog[Len(decLog)].out.kind = "return"
                          THEN decLog[Len(decLog)].out
                          ELSE parse_discovery_output(text)])
  /\ UNCHANGED << clock, running, pc, call, proc, local, hist, result, dres, exc,
                  ncalls, fwCur, fwLat, fwOut, cfg, detected, listing >>
  /\ UNCHANGED << fsVars, readVars, decVars >>

DecodeCall(text) ==
  /\ Len(decLog) < MaxDecodes
  /\ decLog' = Append(decLog, [text |-> text, out |-> parse_discovery_output(text)])
  /\ UNCHANGED << clock, running, pc, call, proc, local, hist, result, dres, exc,
                  ncalls, fwCur, fwLat, fwOut, cfg, detected, listing >>
  /\ UNCHANGED << fsVars, readVars, decVars >>

\* Calls on single-line texts.
NextDecodeLog == \E l \in Lines : DecodeCall(<< l >>)

SpecDecodeLog == Init /\ [][NextDecodeLog]_vars


(***************************************************************************)
(* firmware.py: versions and the update check.                             *)
(*                                                                         *)
(* A string is the sequence of its characters.  The characters used are    *)
(* the digits, the dot and lower-case letters; on these int() takes a      *)
(* non-empty run of digits and raises ValueError on anything else.         *)
(***************************************************************************)
Digit ==
     ("0" :> 0) @@ ("1" :> 1) @@ ("2" :> 2) @@ ("3" :> 3) @@ ("4" :> 4)
  @@ ("5" :> 5) @@ ("6" :> 6) @@ ("7" :> 7) @@ ("8" :> 8) @@ ("9" :> 9)

Unknown == << "u", "n", "k", "n", "o", "w", "n" >>

\* The numeric cores and the tails the version strings are made of.
Cores ==
  { << "3", ".", "5", ".", "0" >>,
    << "3", ".", "6", ".", "0" >>,
    << "3", ".", "6", ".", "1" >>,
    << "3", ".", "0", ".", "0" >>,
    << "3", ".", "1", "0", ".", "0" >>,
    << "3", ".", "6" >>,
    << "3", ".", "6", ".", "1", ".", "2" >>,
    << >> }

Tails ==
  { << >>,
    << "b", "1" >>,
    << "a", "2" >>,
    << "r", "c", "1" >>,
    << "c", "1" >>,
    << "d", "e", "v", "1" >>,
    << "b", "e", "t", "a" >> }

Versions == { c \o t : c \in Cores, t \in Tails } \cup { Unknown }

\* s.split(sep)[0]: what stands before the first occurrence of sep.
RECURSIVE split_first(_, _)
split_first(s, sep) ==
  IF Len(s) < Len(sep) THEN s
  ELSE IF SubSeq(s, 1, Len(sep)) = sep THEN << >>
  ELSE << Head(s) >> \o split_first(Tail(s), sep)

\* s.split("."): the parts between the dots, empty parts included.
RECURSIVE split(_, _)
split(s, c) ==
  IF s = << >> THEN << << >> >>
  ELSE LET rest == split(Tail(s), c) IN
       IF Head(s) = c THEN << << >> >> \o rest
       ELSE << << Head(s) >> \o Head(rest) >> \o Tail(rest)

RECURSIVE DecimalValue(_, _)
DecimalValue(p, acc) ==
  IF p = << >> THEN acc ELSE DecimalValue(Tail(p), 10 * acc + Digit[Head(p)])

\* int(p)
int(p) ==
  IF p # << >> /\ \A k \in 1..Len(p) : p[k] \in DOMAIN Digit
  THEN [v |-> DecimalValue(p, 0)]
  ELSE [raise |-> "ValueError"]

\* Lines 29-39.
parse_version(version_str) ==
  IF version_str = << >> \/ version_str = Unknown THEN << 0, 0, 0 >>
  ELSE LET stripped == split_first(split_first(split_first(version_str, << "a" >>),
                                               << "b" >>), << "r", "c" >>)
           parts == split(stripped, ".")
       IN IF \E k \in 1..Len(parts) : "raise" \in DOMAIN int(parts[k])
          THEN << 0, 0, 0 >>
          ELSE [k \in 1..Len(parts) |-> int(parts[k]).v]

\* Python's order of tuples: by the first component that differs, and a
\* proper prefix comes first.
RECURSIVE TupleLess(_, _)
TupleLess(a, b) ==
  IF a = << >> THEN b # << >>
  ELSE IF b = << >> THEN FALSE
  ELSE IF Head(a) # Head(b) THEN Head(a) < Head(b)
  ELSE TupleLess(Tail(a), Tail(b))

\* compare_versions looking at the first component only.
compare_versions_major(current, latest_version) ==
  LET current_tuple == parse_version(current)
      latest_tuple  == parse_version(latest_version)
  IN IF Head(current_tuple) < Head(latest_tuple) THEN -1
     ELSE IF Head(current_tuple) > Head(latest_tuple) THEN 1
     ELSE 0

\* Lines 50-58.
compare_versions(current, latest_version) ==
  LET current_tuple == parse_version(current)
      latest_tuple  == parse_version(latest_version)
  IN IF TupleLess(current_tuple, latest_tuple) THEN -1
     ELSE IF TupleLess(latest_tuple, current_tuple) THEN 1
     ELSE 0

HUB_FIRMWARE_MAP ==
     ("InventorHub" :> "primehub") @@ ("PrimeHub" :> "primehub")
  @@ ("TechnicHub" :> "technichub") @@ ("CityHub" :> "cityhub")
  @@ ("EssentialHub" :> "essentialhub") @@ ("MoveHub" :> "movehub")

\* The hub_type arguments tried: one in the map, one not.
HubTypes == { "TechnicHub", "Unknown" }

\* Lines 96-100: the file name, as the pieces of the f-string.
get_firmware_filename(hub_type, version) ==
  IF hub_type \notin DOMAIN HUB_FIRMWARE_MAP THEN None
  ELSE << "pybricks-", HUB_FIRMWARE_MAP[hub_type], "-v", version, ".zip" >>

\* Lines 113-121.
get_firmware_download_url(hub_type, release_info) ==
  LET filename == get_firmware_filename(hub_type, release_info.version) IN
  IF filename = None THEN None
  ELSE IF \E k \in 1..Len(release_info.assets) : release_info.assets[k].name = filename
  THEN LET k == CHOOSE k \in 1..Len(release_info.assets) :
                  /\ release_info.assets[k].name = filename
                  /\ \A m \in 1..(k - 1) : release_info.assets[m].name # filename
       IN release_info.assets[k].browser_download_url
  ELSE None

\* What get_latest_release can hand back when the registry's latest tag is
\* "v" + version: None when the fetch or the decoding failed (lines 81-83),
\* else the release, with or without an asset for the Technic hub.
get_latest_release(version) ==
  { None } \cup
  { [version |-> version, url |-> "html_url", assets |-> assets] :
      assets \in { << >>,
                   << [name |-> << "pybricks-", "technichub", "-v", version, ".zip" >>,
                       browser_download_url |-> "browser_download_url"] >> } }

\* The update check that also offers the release the hub already runs.
check_update_available_or_equal(current_version, hub_type, release) ==
  IF release = None
  THEN [available |-> FALSE, current |-> current_version, latest |-> None,
        error |-> "Could not fetch latest release from GitHub"]
  ELSE LET comparison == compare_versions(current_version, release.version)
           info == [available |-> comparison <= 0, current |-> current_version,
                      latest |-> release.version, release_url |-> release.url]
       IN IF comparison <= 0
          THEN info @@ [download_url |-> get_firmware_download_url(hub_type, release)]
          ELSE info

\* Lines 152-177, with release what get_latest_release() handed back.
check_update_available(current_version, hub_type, release) ==
  IF release = None
  THEN [available |-> FALSE, current |-> current_version, latest |-> None,
        error |-> "Could not fetch latest release from GitHub"]
  ELSE LET comparison == compare_versions(current_version, release.version)
           info == [available |-> comparison < 0, current |-> current_version,
                      latest |-> release.version, release_url |-> release.url]
       IN IF comparison < 0
          THEN info @@ [download_url |-> get_firmware_download_url(hub_type, release)]
          ELSE info

\* The calls, each on the argument strings the behaviour began with.
InitFirmware ==
  /\ InitSystem
  /\ decIn = << >>
  /\ decOut = [kind |-> "idle"]
  /\ decLog = << >>
  /\ fwCur \in Versions
  /\ fwLat \in Versions
  /\ fwOut = [op |-> "idle"]
  /\ cfg = [exists |-> FALSE]
  /\ detected = [outcome |-> "none"]
  /\ listing = [made |-> FALSE]

FirmwareFrame ==
  /\ UNCHANGED << clock, running, pc, call, proc, local, hist, result, dres, exc,
                  ncalls, decLog, fwCur, fwLat, cfg, detected, listing >>
  /\ UNCHANGED << fsVars, readVars, decVars >>

ParseVersion ==
  /\ fwOut.op = "idle"
  /\ fwOut' = [op |-> "parse_version", value |-> parse_version(fwCur)]
  /\ FirmwareFrame

CompareVersions ==
  /\ fwOut.op = "idle"
  /\ fwOut' = [op |-> "compare_versions", value |-> compare_versions(fwCur, fwLat)]
  /\ FirmwareFrame

CheckUpdateAvailable ==
  /\ fwOut.op = "idle"
  /\ \E hub_type \in HubTypes, release \in get_latest_release(fwLat) :
       fwOut' = [op |-> "check_update_available", hub_type |-> hub_type,
                 release |-> release,
                 value |-> check_update_available(fwCur, hub_type, release)]
  /\ FirmwareFrame

NextFirmware ==
  \/ ParseVersion
  \/ CompareVersions
  \/ CheckUpdateAvailable

SpecFirmware == InitFirmware /\ [][NextFirmware]_vars

(***************************************************************************)
(* config.py and server.py: detect_hub and llll.toml.                      *)
(*                                                                         *)
(* llll.toml is the sequence of the lines save_config writes.              *)
(***************************************************************************)
PyStr(s) == [t |-> "str", v |-> s]

\* config.py lines 125-135, on the values save_config formats with it.
toml_value(v) ==
  IF v.t = "str" THEN "\"" \o v.v \o "\""
  ELSE IF v.t = "int" THEN ToString(v.v)
  ELSE "\"" \o v.t \o "\""

\* The port letters in sorted order.
PortLetters == << "A", "B", "C", "D", "E", "F" >>

\* bool(v) of a value that is None, a number or a string.
Truthy(v) ==
  IF v.t = "int" THEN v.v # 0
  ELSE IF v.t = "str" THEN v.v # ""
  ELSE FALSE

\* config.py lines 66-74: the ports dict, keyed by letter; a later entry for
\* a letter replaces an earlier one.
ConfigPorts(port_list) ==
  LET with_device == { k \in 1..Len(port_list) :
                         /\ "device_id" \in DOMAIN port_list[k]
                         /\ port_list[k].device_id # None }
      letters == { port_list[k].port : k \in with_device }
      last(l) == CHOOSE k \in with_device :
                   /\ port_list[k].port = l
                   /\ \A m \in with_device : port_list[m].port = l => m <= k
  IN [l \in letters |->
        LET port_info == port_list[last(l)] IN
        [device |-> IF "device_name" \in DOMAIN port_info
                    THEN port_info.device_name
                    ELSE "Unknown ID " \o ToString(port_info.device_id.v),
         class  |-> IF "pybricks_class" \in DOMAIN port_info
                    THEN port_info.pybricks_class
                    ELSE "PUPDevice",
         id     |-> port_info.device_id.v]]

\* config.py lines 64-88; discovery_data["hub_type"] raises KeyError when the
\* key is missing.
discovery_to_config(discovery_data) ==
  IF "hub_type" \notin DOMAIN discovery_data THEN [raise |-> "KeyError"]
  ELSE [hubs |-> << [type |-> discovery_data.hub_type,
                     name |-> IF "hub_name" \in DOMAIN discovery_data
                              THEN PyStr(discovery_data.hub_name) ELSE None,
                     battery_voltage |->
                       IF "battery_voltage" \in DOMAIN discovery_data
                       THEN PyInt(discovery_data.battery_voltage) ELSE None,
                     ports |-> IF "ports" \in DOMAIN discovery_data
                               THEN ConfigPorts(discovery_data.ports)
                               ELSE << >>] >>,
        settings |-> [timeout |-> 60]]

\* config.py lines 46-58: the lines of one hub's ports, letters sorted.
RECURSIVE PortLines(_, _)
PortLines(ports, k) ==
  IF k > Len(PortLetters) THEN << >>
  ELSE LET l == PortLetters[k] IN
       (IF l \in DOMAIN ports
        THEN << l \o " = {device = " \o toml_value(PyStr(ports[l].device)) \o
                ", class = " \o toml_value(PyStr(ports[l].class)) \o
                ", id = " \o ToString(ports[l].id) \o "}" >>
        ELSE << >>) \o PortLines(ports, k + 1)

\* config.py lines 37-58: the lines of one hub.
HubLines(hub) ==
     << "[[hubs]]", "type = " \o toml_value(PyStr(hub.type)) >>
  \o (IF Truthy(hub.name) THEN << "name = " \o toml_value(hub.name) >> ELSE << >>)
  \o (IF Truthy(hub.battery_voltage)
      THEN << "battery_voltage = " \o ToString(hub.battery_voltage.v) >> ELSE << >>)
  \o << "" >>
  \o (IF DOMAIN hub.ports # {}
      THEN << "[hubs.ports]" >> \o PortLines(hub.ports, 1) \o << "" >>
      ELSE << >>)

RECURSIVE AllHubLines(_)
AllHubLines(hubs) ==
  IF hubs = << >> THEN << >> ELSE HubLines(Head(hubs)) \o AllHubLines(Tail(hubs))

\* save_config that keeps what llll.toml holds and adds the new lines.
save_config_appending(data) ==
  [exists |-> TRUE,
   text |-> (IF cfg.exists THEN cfg.text ELSE << >>)
            \o << "[settings]", "timeout = " \o toml_value(PyInt(data.settings.timeout)), "" >>
            \o AllHubLines(data.hubs)]

\* config.py lines 22-61: path.write_text replaces the file's content.
save_config(data) ==
  [exists |-> TRUE,
   text |-> << "[settings]", "timeout = " \o toml_value(PyInt(data.settings.timeout)), "" >>
            \o AllHubLines(data.hubs)]

\* A configuration stored earlier: another timeout, two hubs, a port E.
OldConfig ==
  [exists |-> TRUE,
   text |-> << "[settings]", "timeout = 120", "",
               "[[hubs]]", "type = \"CityHub\"", "name = \"Old\"",
               "battery_voltage = 7000", "",
               "[hubs.ports]",
               "E = {device = \"Color Sensor\", class = \"ColorSensor\", id = 61}", "",
               "[[hubs]]", "type = \"MoveHub\"", "" >>]

\* server.py lines 51-59: what detect_hub does with what run_discovery
\* handed back (data) or raised (e): the new llll.toml and the outcome.
DetectOutcome(data, e) ==
  IF e # "" THEN [outcome |-> "raised", cfg |-> cfg]
  ELSE IF "error" \in DOMAIN data THEN [outcome |-> "failed", cfg |-> cfg]
  ELSE LET c == discovery_to_config(data) IN
       IF "raise" \in DOMAIN c THEN [outcome |-> "raised", cfg |-> cfg]
       ELSE [outcome |-> "saved", cfg |-> save_config(c)]

\* detect_hub that saves whatever run_discovery returned.
DetectHubReturnSavingAll(i) ==
  /\ pc[i] = "done"
  /\ call[i].kind = "discover"
  /\ cfg' = IF exc[i] # "" THEN cfg
            ELSE IF "error" \in DOMAIN dres[i] THEN [exists |-> TRUE, text |-> << >>]
            ELSE DetectOutcome(dres[i], exc[i]).cfg
  /\ detected' = [outcome |-> DetectOutcome(dres[i], exc[i]).outcome,
                  data |-> dres[i], exc |-> exc[i], before |-> cfg]
  /\ pc' = [pc EXCEPT ![i] = "idle"]
  /\ call' = [call EXCEPT ![i] = NoCall]
  /\ proc' = [proc EXCEPT ![i] = NoProc]
  /\ local' = [local EXCEPT ![i] = NoLocal]
  /\ hist' = [hist EXCEPT ![i] = NoHist]
  /\ result' = [result EXCEPT ![i] = NoResult]
  /\ dres' = [dres EXCEPT ![i] = NoResult]
  /\ exc' = [exc EXCEPT ![i] = ""]
  /\ UNCHANGED << clock, running, ncalls, decLog, fwCur, fwLat, fwOut, listing >>
  /\ UNCHANGED << fsVars, readVars, decVars >>

\* server.py lines 51-62: run_discovery is over; detect_hub saves or not and
\* returns (or the exception goes on to its caller); the task is free again.
DetectHubReturn(i) ==
  /\ pc[i] = "done"
  /\ call[i].kind = "discover"
  /\ cfg' = DetectOutcome(dres[i], exc[i]).cfg
  /\ detected' = [outcome |-> DetectOutcome(dres[i], exc[i]).outcome,
                  data |-> dres[i], exc |-> exc[i], before |-> cfg]
  /\ pc' = [pc EXCEPT ![i] = "idle"]
  /\ call' = [call EXCEPT ![i] = NoCall]
  /\ proc' = [proc EXCEPT ![i] = NoProc]
  /\ local' = [local EXCEPT ![i] = NoLocal]
  /\ hist' = [hist EXCEPT ![i] = NoHist]
  /\ result' = [result EXCEPT ![i] = NoResult]
  /\ dres' = [dres EXCEPT ![i] = NoResult]
  /\ exc' = [exc EXCEPT ![i] = ""]
  /\ UNCHANGED << clock, running, ncalls, decLog, fwCur, fwLat, fwOut, listing >>
  /\ UNCHANGED << fsVars, readVars, decVars >>

\* The project with or without a llll.toml stored earlier.
InitDetect ==
  /\ InitSystem
  /\ decIn = << >>
  /\ decOut = [kind |-> "idle"]
  /\ decLog = << >>
  /\ fwCur = << >>
  /\ fwLat = << >>
  /\ fwOut = [op |-> "idle"]
  /\ cfg \in { [exists |-> FALSE], OldConfig }
  /\ detected = [outcome |-> "none"]
  /\ listing = [made |-> FALSE]

\* Calls of detect_hub: line 49 awaits run_discovery, whose steps follow.
NextDetect ==
  \/ \E i \in Tasks : run_discovery(i)
  \/ \E i \in Tasks : DiscoveryFinish(i)
  \/ \E i \in Tasks : DetectHubReturn(i)
  \/ \E i \in Tasks : RunSpawn(i)
  \/ \E i \in Tasks : ChildExit(i)
  \/ \E i \in Tasks : TimerFires(i)
  \/ \E i \in Tasks : RunWaitDone(i)
  \/ \E i \in Tasks : RunKill(i)
  \/ \E i \in Tasks : ChildDies(i)
  \/ \E i \in Tasks : RunDrainDone(i)
  \/ \E i \in Tasks : LogOpen(i)
  \/ \E i \in Tasks : LogFlush(i)
  \/ \E i \in Tasks : LogClose(i)
  \/ \E i \in Tasks : AliasUnlink(i)
  \/ \E i \in Tasks : AliasSymlink(i)

SpecDetect == InitDetect /\ [][NextDetect]_vars

(***************************************************************************)
(* runner.py lines 58-103 under the scheduling the event loop and the      *)
(* operating system give: a task that can go on is resumed, the timer of   *)
(* wait_for fires, a signalled child ends.  Nothing makes a child end by    *)
(* itself, a caller call again, or a finished call's frame go away.        *)
(***************************************************************************)
RunFairness(i) ==
  /\ WF_vars(RunSpawn(i))
  /\ WF_vars(TimerFires(i))
  /\ WF_vars(RunWaitDone(i))
  /\ WF_vars(RunKill(i))
  /\ WF_vars(ChildDies(i))
  /\ WF_vars(RunDrainDone(i))
  /\ WF_vars(LogOpen(i))
  /\ WF_vars(LogClose(i))
  /\ WF_vars(AliasUnlink(i))
  /\ WF_vars(AliasSymlink(i))

SpecLive == Init /\ [][Next]_vars /\ \A i \in Tasks : RunFairness(i)

(***************************************************************************)
(* logs.py: list_logs.  A dated log file's name is its stem, "_", the      *)
(* timestamp and ".log"; sorted() compares the paths as strings, so the    *)
(* stem decides first and the fixed-width timestamp only among equal stems.*)
(***************************************************************************)
\* The order of the model's stems as strings: "_" < "d" < "m".
StemRank == ("_llll_discover" :> 0) @@ ("drive" :> 1) @@ ("main" :> 2)

\* Path a sorts before path b.
PathLess(a, b) ==
  \/ StemRank[a[1]] < StemRank[b[1]]
  \/ a[1] = b[1] /\ a[2] < b[2]

\* sorted(paths, reverse=True)
RECURSIVE SortedReverse(_)
SortedReverse(paths) ==
  IF paths = {} THEN << >>
  ELSE LET top == CHOOSE p \in paths : \A q \in paths \ {p} : PathLess(q, p)
       IN << top >> \o SortedReverse(paths \ {top})

\* Lines 8-20: no logs/ directory, no entries; else one entry per *.log file
\* but latest.log, in the reverse order of the paths.  glob gives latest.log
\* too when the alias is there; the loop skips it.
list_logs ==
  IF ~logsDir THEN << >>
  ELSE LET sorted == SortedReverse(DOMAIN files) IN
       [k \in 1..Len(sorted) |-> [file |-> sorted[k], size |-> files[sorted[k]].st]]

\* server.py list_run_logs: a synchronous tool of the same server, run by the
\* loop between the steps of the tasks.
ListLogs ==
  /\ running = 0
  /\ listing' = [made |-> TRUE, logs |-> list_logs]
  /\ listing' # listing
  /\ UNCHANGED << clock, running, pc, call, proc, local, hist, result, dres, exc,
                  ncalls, decLog, fwCur, fwLat, fwOut, cfg, detected >>
  /\ UNCHANGED << fsVars, readVars, decVars >>

\* Runs of the project's programs one after the other, and listings.
NextList ==
  \/ \E f \in UserFiles : run_program(1, f)
  \/ RunStep(1)
  \/ ListLogs

SpecList == Init /\ [][NextList]_vars

(***************************************************************************)
(* Properties.                                                             *)
(***************************************************************************)
\* The call on task i ends in this step (it returns or raises).
Ends(i) == pc[i] # "done" /\ pc'[i] = "done"

\* The child of task i's call was launched.
Launched(i) == proc[i].state # "none"

\* C1: a result returned after the child was launched has success true exactly
\* when exit_code is 0 and timed_out is false; a result returned without a
\* launch (program file missing, uploader missing) has success false.
C1_SuccessIffCleanExit ==
  \A i \in Tasks :
    result[i] # NoResult =>
      IF Launched(i)
      THEN /\ {"success", "exit_code", "timed_out"} \subseteq DOMAIN result[i]
           /\ result[i].success <=> (result[i].exit_code = 0 /\ ~result[i].timed_out)
      ELSE ~result[i].success

C1_Witness ==
  \E i \in Tasks, j \in Tasks :
    /\ Launched(i) /\ result[i] # NoResult /\ result[i].success
    /\ Launched(j) /\ result[j] # NoResult /\ result[j].timed_out

\* C2: every call that launches a child and returns has added one new dated
\* log file and leaves latest.log naming that file; every call that returns
\* without a launch adds no log file and leaves latest.log as it was.
C2_EachLaunchedRunAddsOneLog ==
  [][\A i \in Tasks :
       Ends(i) /\ call'[i].kind = "run" /\ exc'[i] = "" =>
         IF proc'[i].state # "none"
         THEN /\ hist'[i].created
              /\ local'[i].log_file \in DOMAIN files'
              /\ latest' = << local'[i].log_file >>
         ELSE files' = files /\ latest' = latest]_vars

\* C3: when the timeout is up and the child still runs, run_program kills it;
\* no child is still running when run_program has returned; and the result of
\* a call whose child was killed has timed_out true and success false.
C3_NoChildLeftAtReturn ==
  \A i \in Tasks :
    result[i] # NoResult =>
      /\ proc[i].state \in {"none", "exited", "dead"}
      /\ proc[i].state = "dead" => result[i].timed_out /\ ~result[i].success

C3_TimeoutKills ==
  /\ []C3_NoChildLeftAtReturn
  /\ [][\A i \in Tasks :
          pc[i] = "expired" /\ proc[i].state = "running" /\ pc'[i] # "expired" =>
            proc'[i].state = "killing" /\ pc'[i] = "drain"]_vars

C3_Witness ==
  \E i \in Tasks :
    result[i] # NoResult /\ proc[i].state = "dead" /\ result[i].timed_out

\* C4: once latest.log has existed, every read_log without a name, made in
\* another process at any moment, returns a completely written log.
C4_ReaderSeesWholeLog ==
  robs.hadAlias => robs.text = "complete"

\* C5: a call whose program file is missing returns at once with success
\* false and the file-not-found error; no child is launched, no log file is
\* written and latest.log is not changed.
C5_MissingFileFailsFast ==
  [][\A i \in Tasks :
       (pc[i] = "idle" /\ pc'[i] # "idle" /\ call'[i].kind = "run"
          /\ call'[i].file \notin projectFiles) =>
         /\ pc'[i] = "done"
         /\ exc'[i] = ""
         /\ result'[i].success = FALSE
         /\ result'[i].error = "File not found: " \o call'[i].file
         /\ proc' = proc /\ proc'[i] = NoProc
         /\ files' = files
         /\ latest' = latest]_vars

C5_Witness ==
  \E i \in Tasks :
    /\ pc[i] = "done" /\ call[i].kind = "run" /\ call[i].file \notin projectFiles
    /\ result[i] # NoResult /\ "error" \in DOMAIN result[i]
    /\ latest # << >>

\* C6: when the uploader cannot be launched the call returns success false
\* and the tool-not-found error, which is not the file-not-found error; the
\* result has no exit_code and no timed_out; no log file is written and
\* latest.log is not touched.
C6_MissingToolIsItsOwnError ==
  [][\A i \in Tasks :
       (pc[i] = "spawn" /\ pc'[i] # "spawn" /\ proc'[i].state = "none") =>
         /\ exc'[i] = ""
         /\ result'[i].success = FALSE
         /\ "error" \in DOMAIN result'[i]
         /\ result'[i].error = "pybricksdev not found. Install it with: pip install pybricksdev"
         /\ result'[i].error # "File not found: " \o call[i].file
         /\ "exit_code" \notin DOMAIN result'[i]
         /\ "timed_out" \notin DOMAIN result'[i]
         /\ files' = files
         /\ latest' = latest]_vars

C6_Witness ==
  \E i \in Tasks :
    /\ pc[i] = "done" /\ local[i] # NoLocal /\ ~Launched(i)
    /\ result[i] # NoResult /\ "error" \in DOMAIN result[i]
    /\ latest # << >>

\* C7: when a call of run_discovery ends, by a return or by an exception, the
\* staged probe file is not in the project root; with no call in flight it is
\* not there either.
C7_ProbeFileRemoved ==
  /\ []((\A i \in Tasks : pc[i] \in {"idle", "done"}) => ProbeFile \notin projectFiles)
  /\ [][\A i \in Tasks :
          Ends(i) /\ call'[i].kind = "discover" => ProbeFile \notin projectFiles']_vars

C7_Witness ==
  \E i \in Tasks :
    /\ pc[i] = "done" /\ call[i].kind = "discover"
    /\ Launched(i) /\ exc[i] # ""
    /\ ProbeFile \notin projectFiles

\* The first line of a text that starts with the marker (0: none).
RECURSIVE FirstMarkerLine(_, _)
FirstMarkerLine(text, k) ==
  IF k > Len(text) THEN 0
  ELSE IF startswith(text[k]) THEN k
  ELSE FirstMarkerLine(text, k + 1)

\* The text has no marker line, or what follows the marker is no valid JSON.
Undecodable(text) ==
  LET k == FirstMarkerLine(text, 1) IN
  k = 0 \/ "raise" \in DOMAIN json_loads(Tail(text[k]))

\* C8: decoding never raises; a text with no marker line, or with a marker
\* line that holds no valid JSON, decodes to "no result".
C8_DecodingNeverRaises ==
  decOut.kind # "idle" =>
    /\ decOut.kind # "raise"
    /\ Undecodable(decIn) => decOut.kind = "none"

\* What C9 says run_discovery returns for r, the result of run_program.
C9_Expected(r) ==
  IF "error" \in DOMAIN r THEN [error |-> r.error]
  ELSE IF r.exit_code # 0 \/ r.timed_out
  THEN [error |-> "Discovery program failed (exit code " \o ToString(r.exit_code) \o ")",
        output |-> r.output]
  ELSE IF Undecodable(r.output)
  THEN [error |-> "Could not parse discovery output", output |-> r.output]
  ELSE parse_discovery_output(r.output).value

\* C9: run_discovery returns {error} for a runner error, else the
\* discovery-failed error with the output for a non-zero exit or a timeout,
\* else the could-not-parse error with the output for a text that cannot be
\* decoded, else the decoded payload; it does not raise.
C9_OutcomeOrder ==
  \A i \in Tasks :
    (pc[i] = "done" /\ call[i].kind = "discover" /\ result[i] # NoResult) =>
      /\ exc[i] = ""
      /\ dres[i] = C9_Expected(result[i])

\* The calls on tasks i and j were in flight at the same time: the later of
\* the two began while the other was in flight.
Overlapped(i, j) ==
  IF call[i].id > call[j].id THEN hist[i].overlapped ELSE hist[j].overlapped

\* C10: of two calls in flight at the same time that both launch a child and
\* return, each has its own log file with its own record, and when the second
\* of them returns latest.log names its log.
C10_ConcurrentRunsKeepOwnLogs ==
  [][\A i \in Tasks, j \in Tasks :
       (/\ i # j /\ Ends(i) /\ pc[j] = "done"
        /\ call[i].kind = "run" /\ call[j].kind = "run"
        /\ Overlapped(i, j)
        /\ Launched(i) /\ Launched(j)
        /\ exc'[i] = "" /\ exc[j] = "") =>
         /\ local[i].log_file # local[j].log_file
         /\ files'[local[i].log_file].call = call[i].id
         /\ files'[local[j].log_file].call = call[j].id
         /\ latest' = << local[i].log_file >>]_vars

\* The call of run_program on task i launched a child and has returned.
Returned(i) ==
  /\ pc[i] = "done" /\ call[i].kind = "run"
  /\ Launched(i) /\ exc[i] = "" /\ result[i] # NoResult

\* The record that the call on task i wrote is in logs/, completely written.
RecordOnDisk(i) ==
  \E f \in DOMAIN files : files[f].call = call[i].id /\ files[f].st = "complete"

\* C11: when two runs of the same stem got the same one-second timestamp and
\* both have returned, the record of each is on disk (the first writer's is
\* not overwritten or lost) and latest.log names the record of one of them.
C11_CollisionKeepsFirstRecord ==
  \A i \in Tasks, j \in Tasks :
    (i # j /\ Returned(i) /\ Returned(j)
       /\ local[i].log_file = local[j].log_file) =>
      /\ RecordOnDisk(i)
      /\ RecordOnDisk(j)
      /\ latest # << >>
      /\ latest[1] \in DOMAIN files
      /\ files[latest[1]].call \in {call[i].id, call[j].id}

\* The outcome classes of a result r of the call on task i.
NormalCompletion(i, r) ==
  /\ {"exit_code", "timed_out"} \subseteq DOMAIN r
  /\ "error" \notin DOMAIN r
  /\ ~r.timed_out
  /\ proc[i].state = "exited"
  /\ r.exit_code = proc[i].returncode

TimedOut(i, r) == "timed_out" \in DOMAIN r /\ r.timed_out

SpawnFailure(i, r) == "error" \in DOMAIN r /\ "exit_code" \notin DOMAIN r

OutcomeClasses(i, r) ==
  {c \in {"normal", "timeout", "spawn failure"} :
     \/ c = "normal" /\ NormalCompletion(i, r)
     \/ c = "timeout" /\ TimedOut(i, r)
     \/ c = "spawn failure" /\ SpawnFailure(i, r)}

\* C12: every result run_program returned is in exactly one of the classes
\* normal completion, timeout and spawn failure, also when the child ended at
\* the moment the timeout fired.
C12_ExactlyOneOutcomeClass ==
  \A i \in Tasks :
    result[i] # NoResult => Cardinality(OutcomeClasses(i, result[i])) = 1

\* A result of each class, the timeout one from a child that had ended by
\* itself when kill() was called.
C12_Witness ==
  \E i \in Tasks, j \in Tasks :
    /\ result[i] # NoResult /\ TimedOut(i, result[i]) /\ proc[i].state = "exited"
    /\ result[j] # NoResult /\ (NormalCompletion(j, result[j]) \/ SpawnFailure(j, result[j]))

\* logs/latest.log, when it exists, is a link to a dated log file of logs/.
C13_AliasNamesDatedLog ==
  latest # << >> => Len(latest) = 1 /\ latest[1] \in DOMAIN files

\* C13: latest.log, if it exists, is an alias naming a dated log file that
\* exists in logs/, never a file with a copy of a log: a step that writes a
\* log writes the run's own dated file and leaves the alias alone, and a step
\* that changes the alias removes it or makes it anew from absent, naming the
\* run's dated file, and writes no log.
C13_LatestIsAnAlias ==
  /\ []C13_AliasNamesDatedLog
  /\ [][/\ files' # files =>
            /\ latest' = latest
            /\ \E i \in Tasks :
                 /\ pc[i] \in {"open", "write", "close"}
                 /\ DOMAIN files' = DOMAIN files \cup {local[i].log_file}
                 /\ \A f \in DOMAIN files \ {local[i].log_file} : files'[f] = files[f]
        /\ latest' # latest =>
            /\ files' = files
            /\ \E i \in Tasks :
                 \/ pc[i] = "unlink" /\ latest' = << >>
                 \/ pc[i] = "symlink" /\ latest = << >>
                      /\ latest' = << local[i].log_file >>]_vars

\* The alias has been replaced: it names the log of a returned run, the
\* second of two logs.
C13_Witness ==
  \E i \in Tasks :
    /\ Returned(i)
    /\ latest = << local[i].log_file >>
    /\ Cardinality(DOMAIN files) = 2
    /\ files[latest[1]].call = 2

\* The JSON value of the first marker line of the text (a raise when the text
\* has no marker line or the payload is no JSON).
FirstPayload(text) ==
  LET k == FirstMarkerLine(text, 1) IN
  IF k = 0 THEN [raise |-> "no marker line"] ELSE json_loads(Tail(text[k]))

\* The first marker line of the text holds a JSON object that has the key key.
FirstPayloadHas(text, key) ==
  LET d == FirstPayload(text) IN
  "raise" \notin DOMAIN d /\ d.t = "dict" /\ key \in DOMAIN d.v

\* C14: for a marker line whose JSON object has the key error, the decoder
\* returns that object as it is: no port enriched, no field added or removed.
C14_ErrorPayloadPassedThrough ==
  (decOut.kind # "idle" /\ FirstPayloadHas(decIn, "error")) =>
    /\ decOut.kind = "return"
    /\ decOut.value = FirstPayload(decIn).v
    /\ DOMAIN decOut.value = DOMAIN FirstPayload(decIn).v

\* An error object with a port list has been decoded.
C14_Witness ==
  /\ decOut.kind = "return"
  /\ decOut.value = ErrorPortsPayload
  /\ FirstPayloadHas(decIn, "error")
  /\ FirstPayloadHas(decIn, "ports")

\* What C15 says a port entry becomes.
C15_Enriched(p) ==
  IF p.device_id = None THEN p
  ELSE IF p.device_id.v \in DOMAIN DEVICE_MAP
  THEN [f \in DOMAIN p \cup {"device_name", "pybricks_class", "pybricks_module"} |->
          CASE f = "device_name"     -> DEVICE_MAP[p.device_id.v][1]
            [] f = "pybricks_class"  -> DEVICE_MAP[p.device_id.v][2]
            [] f = "pybricks_module" -> DEVICE_MAP[p.device_id.v][3]
            [] OTHER                 -> p[f]]
  ELSE [f \in DOMAIN p \cup {"device_name"} |->
          IF f = "device_name"
          THEN "Unknown (ID " \o ToString(p.device_id.v) \o ")"
          ELSE p[f]]

\* C15: in a decoded success payload every port entry with a catalog id has
\* gained the catalog's name, class and module and nothing else, every entry
\* with another id only the name "Unknown (ID N)", and every entry with a
\* null id nothing; the ports keep their order and their fields, and so does
\* the rest of the payload.  Id 46 is "Technic Large Motor", id 9999 is
\* "Unknown (ID 9999)".
C15_PortsEnriched ==
  (/\ decOut.kind # "idle"
   /\ FirstPayloadHas(decIn, "ports")
   /\ ~FirstPayloadHas(decIn, "error")) =>
    LET in  == FirstPayload(decIn).v
        out == decOut.value
    IN /\ decOut.kind = "return"
       /\ DOMAIN out = DOMAIN in
       /\ \A f \in DOMAIN in \ {"ports"} : out[f] = in[f]
       /\ Len(out.ports) = Len(in.ports)
       /\ \A k \in 1..Len(in.ports) :
            /\ out.ports[k] = C15_Enriched(in.ports[k])
            /\ \A f \in DOMAIN in.ports[k] : out.ports[k][f] = in.ports[k][f]
            /\ in.ports[k].device_id = PyInt(46) =>
                 /\ out.ports[k].device_name = "Technic Large Motor"
                 /\ out.ports[k].pybricks_class = "Motor"
                 /\ out.ports[k].pybricks_module = "pybricks.pupdevices"
            /\ in.ports[k].device_id = PyInt(9999) =>
                 /\ out.ports[k].device_name = "Unknown (ID 9999)"
                 /\ DOMAIN out.ports[k] = DOMAIN in.ports[k] \cup {"device_name"}
            /\ in.ports[k].device_id = None => out.ports[k] = in.ports[k]

\* The hub's snapshot has been decoded, with a known, an unknown and a null id.
C15_Witness ==
  /\ decOut.kind = "return"
  /\ FirstPayload(decIn) = [t |-> "dict", v |-> HubPayload]
  /\ Len(decOut.value.ports) = 4
  /\ decOut.value.ports[1].device_name = "Technic Large Motor"
  /\ decOut.value.ports[3].device_name = "Unknown (ID 9999)"
  /\ "device_name" \notin DOMAIN decOut.value.ports[2]

Lex3(a, b) ==
  IF a[1] # b[1] THEN (IF a[1] < b[1] THEN -1 ELSE 1)
  ELSE IF a[2] # b[2] THEN (IF a[2] < b[2] THEN -1 ELSE 1)
  ELSE IF a[3] # b[3] THEN (IF a[3] < b[3] THEN -1 ELSE 1)
  ELSE 0

\* C17: compare_versions returns -1, 0 or 1 by the lexicographic order of the
\* two parsed triplets, "unknown" counting as (0,0,0) and the pre-release
\* suffix of "3.6.0b1" being ignored: 3.5.0 is less than 3.6.1, 3.6.1 equals
\* 3.6.1, 3.6.0b1 equals 3.6.0 and unknown is less than 3.0.0.
C17_CompareByTriplets ==
  fwOut.op = "compare_versions" =>
    LET c == parse_version(fwCur)
        l == parse_version(fwLat)
    IN /\ fwOut.value \in {-1, 0, 1}
       /\ (Len(c) = 3 /\ Len(l) = 3) => fwOut.value = Lex3(c, l)
       /\ (fwCur = Unknown /\ Len(l) = 3) => fwOut.value = Lex3(<< 0, 0, 0 >>, l)
       /\ (fwCur = << "3", ".", "5", ".", "0" >> /\ fwLat = << "3", ".", "6", ".", "1" >>) => fwOut.value = -1
       /\ (fwCur = << "3", ".", "6", ".", "1" >> /\ fwLat = << "3", ".", "6", ".", "1" >>) => fwOut.value = 0
       /\ (fwCur = << "3", ".", "6", ".", "0", "b", "1" >> /\ fwLat = << "3", ".", "6", ".", "0" >>) => fwOut.value = 0
       /\ (fwCur = Unknown /\ fwLat = << "3", ".", "0", ".", "0" >>) => fwOut.value = -1
       /\ (fwCur = << "3", ".", "1", "0", ".", "0" >> /\ fwLat = << "3", ".", "6", ".", "1" >>) => fwOut.value = 1

\* Two versions that differ in the second component have been compared.
C17_Witness ==
  /\ fwOut.op = "compare_versions"
  /\ fwCur = << "3", ".", "5", ".", "0" >>
  /\ fwLat = << "3", ".", "6", ".", "1" >>
  /\ fwOut.value = -1

\* C18: parse_version returns three integers for every input string, (0,0,0)
\* for the empty string and for "unknown"; an input with fewer or more than
\* three components does not give a tuple of another length.
C18_AlwaysATriplet ==
  fwOut.op = "parse_version" =>
    /\ Len(fwOut.value) = 3
    /\ \A k \in 1..Len(fwOut.value) : fwOut.value[k] \in Nat
    /\ fwCur \in {<< >>, Unknown} => fwOut.value = << 0, 0, 0 >>

\* The cores X.Y.Z, and the triplet (X,Y,Z) of such a core.
TripletCores ==
  { c \in Cores :
      LET parts == split(c, ".") IN
      Len(parts) = 3 /\ \A k \in 1..3 : "v" \in DOMAIN int(parts[k]) }

CoreTriplet(c) == [k \in 1..3 |-> int(split(c, ".")[k]).v]

\* The alphabetic tails: letters, then digits or nothing.
AlphaTails == Tails \ { << >> }

\* C19: for a core X.Y.Z followed by an alphabetic pre-release tail (b1, a2,
\* rc1 or another alphabetic tag), parse_version returns (X,Y,Z), as for the
\* core alone.
C19_TailStripped ==
  fwOut.op = "parse_version" =>
    \A c \in TripletCores, t \in AlphaTails :
      fwCur = c \o t =>
        /\ fwOut.value = CoreTriplet(c)
        /\ fwOut.value = parse_version(c)

\* C20: check_update_available reports available exactly when the release
\* was fetched and the current version compares strictly less than the
\* latest; not when it compares equal or greater; and when the fetch failed
\* it reports not available together with the could-not-fetch error.
C20_AvailableIffFetchedAndOlder ==
  fwOut.op = "check_update_available" =>
    LET fetched == fwOut.release # None
        info == fwOut.value
        c == parse_version(fwCur)
        l == parse_version(fwLat)
    IN /\ info.available <=> (fetched /\ compare_versions(fwCur, fwLat) = -1)
       /\ (fetched /\ Len(c) = 3 /\ Len(l) = 3) =>
            (info.available <=> Lex3(c, l) = -1)
       /\ (fetched /\ compare_versions(fwCur, fwLat) \in {0, 1}) => ~info.available
       /\ fetched => "error" \notin DOMAIN info /\ info.latest = fwLat
       /\ ~fetched =>
            /\ ~info.available
            /\ "error" \in DOMAIN info
            /\ info.error = "Could not fetch latest release from GitHub"
            /\ info.latest = None
       /\ info.current = fwCur

\* The fetch failed although the registry has a newer release.
C20_Witness ==
  /\ fwOut.op = "check_update_available"
  /\ fwOut.release = None
  /\ fwCur = << "3", ".", "5", ".", "0" >>
  /\ fwLat = << "3", ".", "6", ".", "1" >>
  /\ ~fwOut.value.available

\* llll.toml for the hub snapshot of the model: one hub, its two devices.
HubConfigText ==
  << "[settings]", "timeout = 60", "",
     "[[hubs]]", "type = \"TechnicHub\"", "name = \"Hub1\"",
     "battery_voltage = 8100", "",
     "[hubs.ports]",
     "A = {device = \"Technic Large Motor\", class = \"Motor\", id = 46}",
     "C = {device = \"Unknown (ID 9999)\", class = \"PUPDevice\", id = 9999}",
     "" >>

LinesOf(text) == { text[k] : k \in 1..Len(text) }

Count(text, line) == Cardinality({ k \in 1..Len(text) : text[k] = line })

\* C21: after a successful detect_hub llll.toml comes from the new snapshot
\* alone: one hub, with the snapshot's type, name, battery voltage and ports,
\* and no line of the configuration stored before that the snapshot does not
\* give again.
C21_ConfigReplaced ==
  detected.outcome = "saved" =>
    /\ cfg.exists
    /\ Count(cfg.text, "[[hubs]]") = 1
    /\ Count(cfg.text, "type = \"" \o detected.data.hub_type \o "\"") = 1
    /\ Count(cfg.text, "name = \"" \o detected.data.hub_name \o "\"") = 1
    /\ Count(cfg.text, "battery_voltage = " \o ToString(detected.data.battery_voltage)) = 1
    /\ detected.data.hub_type = "TechnicHub" => cfg.text = HubConfigText
    /\ detected.before.exists =>
         \A line \in LinesOf(detected.before.text) \ LinesOf(HubConfigText) :
           line \notin LinesOf(cfg.text)

\* A detection has replaced a configuration stored earlier.
C21_Witness ==
  /\ detected.outcome = "saved"
  /\ detected.before = OldConfig
  /\ cfg.text = HubConfigText

\* C28: a detect_hub call whose discovery ended in an error (an error value
\* of any kind, or an exception) leaves llll.toml as it was; llll.toml is
\* written only by a detect_hub call that got a decoded success snapshot.
C28_ErrorLeavesConfig ==
  /\ [](detected.outcome \in {"failed", "raised"} => cfg = detected.before)
  /\ [][cfg' # cfg =>
          \E i \in Tasks :
            /\ pc[i] = "done" /\ pc'[i] = "idle"
            /\ call[i].kind = "discover"
            /\ exc[i] = ""
            /\ result[i].success
            /\ "error" \notin DOMAIN dres[i]
            /\ parse_discovery_output(result[i].output) =
                 [kind |-> "return", value |-> dres[i]]]_vars

\* A detection failed with the captured output while a configuration was
\* stored.
C28_Witness ==
  /\ detected.outcome = "failed"
  /\ "output" \in DOMAIN detected.data
  /\ detected.before = OldConfig
  /\ cfg = OldConfig


\* C22: a result of run_program has exit_code -1 exactly when timed_out is
\* true; a run whose child ended by itself before the timeout, with any
\* status, a signal's included, never returns exit_code -1.
C22_SentinelOnlyOnTimeout ==
  \A i \in Tasks :
    result[i] # NoResult /\ "exit_code" \in DOMAIN result[i] =>
      (result[i].exit_code = -1 <=> result[i].timed_out)


\* C23: every call of run_program that has launched its child comes to its
\* return, whether the child ends at once, late or never by itself; and a
\* call whose timeout fired goes from the kill to the drain of the output,
\* then writes the log, repoints the alias and returns its timed-out result.
C23_EveryCallReturns ==
  \A i \in Tasks :
    /\ (pc[i] = "wait") ~> (pc[i] = "done" /\ exc[i] = "" /\ result[i] # NoResult)
    /\ (pc[i] = "expired") ~> (pc[i] = "drain")
    /\ (pc[i] = "drain") ~> (pc[i] = "open" /\ local[i].timed_out)
    /\ (pc[i] = "open" /\ local[i].timed_out) ~> (pc[i] = "unlink")
    /\ (pc[i] = "unlink" /\ local[i].timed_out) ~>
         (pc[i] = "done" /\ exc[i] = "" /\ TimedOut(i, result[i])
            /\ latest = << local[i].log_file >>)


\* A line that begins with the marker, and the marker lines of a text in
\* their order.
IsMarkerLine(l) == l # << >> /\ Head(l) = Marker

MarkerLines(text) == SelectSeq(text, IsMarkerLine)

\* C24: what parse_discovery_output returns is decided by the lines that begin
\* with the marker alone, and among them by the first: it is the decoding of
\* that line whatever other lines (noise, lines with the marker further in)
\* stand before, between or after, and "no result" when no line begins with
\* the marker.
C24_FirstMarkerLineDecides ==
  decOut.kind # "idle" =>
    decOut = IF MarkerLines(decIn) = << >>
             THEN [kind |-> "none"]
             ELSE DecodeData(json_loads(Tail(Head(MarkerLines(decIn)))))

\* Noise, then two marker lines with different payloads: the first one's
\* payload is the result.
C24_Witness ==
  /\ decIn = << <<"noise", Marker, "{hub}">>, <<Marker, "{error}">>, <<Marker, "{hub}">> >>
  /\ decOut.kind = "return"
  /\ "error" \in DOMAIN decOut.value


\* C25: list_logs returns every dated log file of logs/ and not the
\* latest.log alias, the most recent run first whatever the programs' stems:
\* along the list the timestamps never increase.
C25_MostRecentFirst ==
  /\ [](listing.made =>
          \A a \in DOMAIN listing.logs, b \in DOMAIN listing.logs :
            a < b => listing.logs[a].file[2] >= listing.logs[b].file[2])
  /\ [][listing' # listing =>
          /\ { listing'.logs[k].file : k \in DOMAIN listing'.logs } = DOMAIN files
          /\ Len(listing'.logs) = Cardinality(DOMAIN files)]_vars


\* The call on task i is between the opening of its log file and its return.
InTail(i) == pc[i] \in {"open", "write", "close", "unlink", "symlink"}

\* C26: from the writing of the log to the return run_program does not give
\* up the loop: no two runs are in that part at once, while one run is in it
\* no other coroutine takes a step and nothing but that run touches logs/,
\* latest.log is absent when the run creates it, and no run ends with
\* FileExistsError.
C26_LogTailNotInterleaved ==
  /\ [](\A i \in Tasks, j \in Tasks : i # j => ~(InTail(i) /\ InTail(j)))
  /\ [](\A i \in Tasks : pc[i] = "symlink" => latest = << >>)
  /\ [](\A i \in Tasks : exc[i] # "FileExistsError")
  /\ [][\A i \in Tasks :
          InTail(i) =>
            /\ running = i
            /\ \A j \in Tasks \ {i} :
                 pc'[j] = pc[j] \/ (pc[j] = "done" /\ pc'[j] = "idle")
            /\ fsVars' # fsVars => pc'[i] # pc[i]]_vars

\* One run is about to repoint the alias while the other, concurrent run has
\* its child's output ready and waits for the loop.
C26_Witness ==
  \E i \in Tasks, j \in Tasks :
    /\ i # j
    /\ pc[i] = "unlink"
    /\ hist[i].overlapped \/ hist[j].overlapped
    /\ pc[j] = "wait" /\ proc[j].state = "exited"


\* C27: with two calls of run_discovery in flight on one project root, the
\* probe file a call staged is in place for as long as that call's child has
\* not finished; the clean-up of one call does not take it from under the
\* other call's running child.
C27_ProbeFileKeptForRunningChild ==
  \A i \in Tasks :
    (call[i].kind = "discover" /\ proc[i].state = "running") =>
      ProbeFile \in projectFiles

=============================================================================
